---- MODULE Spec2Model ----
(***************************************************************************)
(* Cloud Functions reliability samples: the lease-based e-mail dedup       *)
(* (idempotency/index.js) and the transactional order pipeline             *)
(* (order-processing/index.js), as state machines.                         *)
(*                                                                         *)
(* Every function execution ("attempt") is a chain of promises: between    *)
(* two asynchronous calls (a Firestore read/write/transaction, an HTTP     *)
(* request) other executions may run, so each action below is one such     *)
(* call taking effect.  Cloud Firestore is the only shared state.          *)
(***************************************************************************)
EXTENDS Integers, Sequences, FiniteSets, TLC

\* ------------------------------------------------------------- bounds
\* Number of executions of idempotentEmailFunction that may be in flight at
\* the same time.
NumAttempts == 2
\* Number of executions of processOrderRetryIdempotent that may be in flight
\* at the same time.
NumOrderAttempts == 2
\* The clock runs from 0 to MaxTicks ticks.
MaxTicks == 3
\* A lease lasts this many clock ticks (so that now = lease is reachable, and
\* so is a time inside the lease later than the grant).
TicksPerLease == 2
\* Counters of side effects saturate at this value.
MaxCount == 2
\* chooseCook answers with one of the first MaxCooks cooks.
MaxCooks == 2

\* Two Pub/Sub events (context.eventId) of the e-mail topic; redeliveries
\* carry the same id.
Events == {1, 2}
Attempts == 1..NumAttempts
\* nonIdempotentFirestoreFunction stores at most one document more than
\* there are events: room for the first duplicate.
MaxContentDocs == Cardinality(Events) + 1
\* One order event: an execution of processOrderRetryIdempotent reads and
\* writes only doc(context.eventId), the document of its own event.
OrderEvents == {1}
OrderAttempts == 1..NumOrderAttempts
\* processOrderRetry stores at most one order more than there are events:
\* room for the first duplicate.
MaxRetryDocs == Cardinality(OrderEvents) + 1

\* idempotency/index.js: const leaseTime = 60 * 1000;
leaseTime == 60 * 1000
\* Milliseconds per clock tick.
TickMs == leaseTime \div TicksPerLease
MaxNow == MaxTicks * TickMs

\* A saturating counter step (the counters only observe the program).
Inc(c) == IF c < MaxCount THEN c + 1 ELSE c

VARIABLES
  \* ---- idempotency/index.js
  now,          \* the clock, what new Date() returns (ms)
  sentEmails,   \* Firestore collection 'sentEmails': event id -> document
  contents,     \* Firestore collection 'contents': a set of documents
  epc,          \* where each execution of idempotentEmailFunction stands
  eev,          \* the event (context.eventId) an execution was triggered with
  decision,     \* what shouldSendWithLease resolved with, while the execution runs
  heldLease,    \* the lease Date the execution's transaction wrote, until its markSent (0: none)
  eoutcome,     \* how the execution ended: ok, rejected (lease taken), failed, crashed
  emailsSent,   \* per event: how many times the e-mail was sent
  firstGrant,   \* per event: when shouldSendWithLease first returned true (-1: never)
  windowRuns,   \* per event: true results within leaseTime of the first one
  flakyRequest, \* the request to flaky an execution has issued and not yet seen answered
  \* ---- order-processing/index.js
  incomingRetryIdempotent, \* Firestore collection: a set of documents
  incomingRetry,           \* Firestore collection: a set of documents
  opc,          \* where each execution of processOrderRetryIdempotent stands
  oev,          \* the event an execution was triggered with
  resCook,      \* res.cook: the cook chooseCook answered this execution (none: no answer held)
  ooutcome,     \* how the execution ended
  orderWrites,  \* per event: committed transaction.set calls
  notifyCalls,  \* per order id: prepareMeal requests answered
  notified,     \* per order id: some prepareMeal request answered 200
  prepareMealRequest, \* the request to prepareMeal an execution has issued and not yet seen answered
  \* ---- caller.js and retries/index.js
  cpc,          \* where the caller stands: start, request, backoff, success, failure
  number,       \* the attempt number promise-retry passed to the last attempt
  timeout,      \* the delay (ms) of the pending retry timer (0: none pending)
  err,          \* the reason of the last rejected attempt
  hpc,          \* where the execution of httpFunction for the current request stands
  succeeded,    \* attempts whose request promise resolved
  failed        \* attempts whose request promise rejected

emailVars == <<now, sentEmails, contents, epc, eev, decision, heldLease,
               eoutcome, emailsSent, firstGrant, windowRuns, flakyRequest>>
orderVars == <<incomingRetryIdempotent, incomingRetry, opc, oev, resCook,
               ooutcome, orderWrites, notifyCalls, notified,
               prepareMealRequest>>
callerVars == <<cpc, number, timeout, err, hpc, succeeded, failed>>
vars == <<emailVars, orderVars, callerVars>>

\* ------------------------------------------------ Firestore documents
\* A DocumentSnapshot: exists, and data() when it exists.
NoDoc == [exists |-> FALSE]
Doc(fields) == [exists |-> TRUE, data |-> fields]
\* emailDoc.data().sent: a missing field reads undefined, which is falsy.
FieldSent(emailDoc) ==
  IF "sent" \in DOMAIN emailDoc.data THEN emailDoc.data.sent ELSE FALSE

\* Mutant of DateBeforeLease: the comparison written with <=.
DateNotAfterLease(t, emailDoc) ==
  IF "lease" \in DOMAIN emailDoc.data THEN t <= emailDoc.data.lease ELSE FALSE

\* Mutant of DateBeforeLease: a lease that is present never runs out.
LeaseFieldPresent(t, emailDoc) == "lease" \in DOMAIN emailDoc.data

\* new Date() < emailDoc.data().lease: a missing field compares false.
DateBeforeLease(t, emailDoc) ==
  IF "lease" \in DOMAIN emailDoc.data THEN t < emailDoc.data.lease ELSE FALSE

\* ------------------------------------------------------- shouldSend
\* Mutant of shouldSend: the record is not looked at.
shouldSendAlways(emailDoc) == TRUE

\* return !emailDoc.exists || !emailDoc.data().sent;
shouldSend(emailDoc) == ~emailDoc.exists \/ ~FieldSent(emailDoc)

\* ---------------------------------------------- shouldSendWithLease
\* Mutant of AlreadySent: the sent check is left out.
SentNeverChecked(emailDoc) == FALSE

\* if (emailDoc.exists && emailDoc.data().sent) return false;
AlreadySent(emailDoc) == emailDoc.exists /\ FieldSent(emailDoc)

\* Mutant of LeaseTaken: the lease check is left out.
LeaseNeverChecked(emailDoc, t) == FALSE

\* if (emailDoc.exists && new Date() < emailDoc.data().lease) reject
LeaseTaken(emailDoc, t) == emailDoc.exists /\ DateBeforeLease(t, emailDoc)

\* Mutant of NewLease: leaseTime is not added.
NewLeaseFromNow(t) == Doc([lease |-> t])

\* {lease: new Date(new Date().getTime() + leaseTime)}
NewLease(t) == Doc([lease |-> t + leaseTime])

\* Mutant of shouldSendWithLease: a taken lease resolves false instead of
\* rejecting.
shouldSendLeaseSkips(emailDoc, t) ==
  IF AlreadySent(emailDoc) \/ LeaseTaken(emailDoc, t)
  THEN [result |-> "false", doc |-> emailDoc]
  ELSE [result |-> "true", doc |-> NewLease(t)]

\* Mutant of shouldSendWithLease: the lease is written before the lease
\* check, so a rejected call renews it.
shouldSendRenewsLease(emailDoc, t) ==
  IF AlreadySent(emailDoc) THEN [result |-> "false", doc |-> emailDoc]
  ELSE IF LeaseTaken(emailDoc, t) THEN [result |-> "rejected", doc |-> NewLease(t)]
  ELSE [result |-> "true", doc |-> NewLease(t)]

\* The transaction body: the value it resolves with and the document the
\* transaction commits (the one read when it writes nothing).
shouldSendWithLease(emailDoc, t) ==
  IF AlreadySent(emailDoc) THEN [result |-> "false", doc |-> emailDoc]
  ELSE IF LeaseTaken(emailDoc, t) THEN [result |-> "rejected", doc |-> emailDoc]
  ELSE [result |-> "true", doc |-> NewLease(t)]

\* Mutant of markSent: the write merges into the record and a lease field
\* stays behind.
markSentKeepsLease == Doc([sent |-> TRUE, lease |-> 0])

\* markSent: emailRef.set({sent: true}) replaces the whole document.
markSent == Doc([sent |-> TRUE])

\* content = JSON.parse(message.data): fixed per event, a redelivery carries
\* the same message.
EventContent(e) == [text |-> e]
\* The documents of 'contents' that hold the content of event e.
ContentsOf(e) == {d \in contents : d.data = EventContent(e)}

\* ------------------------------------------------------ HTTP requests
\* request({method: 'POST', uri, body, json: true}): the path of the uri
\* below the function's name, as the function reads it in req.path, and the
\* body.  NoRequest: the execution has no request in flight.
NoRequest == [issued |-> FALSE]
Request(path, body) == [issued |-> TRUE, path |-> path, body |-> body]
\* Mutant of KeyPath: the uri ends at the function's name.
KeyPathDropped(eventId) == <<>>

\* uri: `.../flaky/${eventId}`
KeyPath(eventId) == <<"/", eventId>>
\* uri: `.../flaky`
PlainPath == <<>>
\* uri: `.../prepareMeal/`
SlashPath == <<"/">>
\* flaky: if (req.path && req.path.length > 1) the idempotency key is
\* req.path.substring(1); otherwise the request carries none.
IdempotencyKey(path) == IF Len(path) > 1 THEN Tail(path) ELSE <<>>

\* ------------------------------------------------- order-processing
\* const cooks = ['John', 'Patricia', 'Mike', 'Linda', 'Steve', 'Katie'];
cooks == <<"John", "Patricia", "Mike", "Linda", "Steve", "Katie">>
\* randomItem(cooks), among the cooks the model draws from.
CookChoices == {cooks[i] : i \in 1..MaxCooks}

\* The event's context.timestamp and decoded message.data: fixed per event.
EventTimestamp(e) == e
EventMeal(e) == e

\* const order = {id, timestamp, meal}; order.cook is set in the transaction.
NewOrder(e) == [id |-> e, timestamp |-> EventTimestamp(e), meal |-> EventMeal(e)]
WithCook(order, cook) ==
  [id |-> order.id, timestamp |-> order.timestamp, meal |-> order.meal,
   cook |-> cook]

\* db.collection(...).doc(docId): the documents of the collection with that id.
DocsAt(coll, docId) == {d \in coll : d.docId = docId}
\* Mutant of SnapshotExists: the snapshot is taken for absent.
SnapshotNeverExists(coll, docId) == FALSE

\* transaction.get(doc): snapshot.exists
SnapshotExists(coll, docId) == DocsAt(coll, docId) # {}
\* transaction.set(doc, data): creates or overwrites the document docId.
DocSet(coll, docId, data) ==
  (coll \ DocsAt(coll, docId)) \cup {[docId |-> docId, data |-> data]}

\* collection.add(data): a new document under an id Firestore generates.
\* Generated ids are fresh and are no event id; the model numbers them
\* -1, -2, ... (documents are never deleted).
AutoId(coll) == -(Cardinality(coll) + 1)
\* Mutant of DocAdd: data that is already stored is not stored again.
DocAddOnce(coll, data) ==
  IF \E d \in coll : d.data = data THEN coll
  ELSE coll \cup {[docId |-> AutoId(coll), data |-> data]}

DocAdd(coll, data) == coll \cup {[docId |-> AutoId(coll), data |-> data]}

\* Mutant of OrderTransaction: the set is not guarded by !snapshot.exists.
OrderTransactionUnchecked(coll, e, cook) ==
  [coll |-> DocSet(coll, e, WithCook(NewOrder(e), cook)), wrote |-> TRUE]

\* Mutant of OrderTransaction: the guard is inverted (snapshot.exists).
OrderTransactionInverted(coll, e, cook) ==
  IF SnapshotExists(coll, e)
  THEN [coll |-> DocSet(coll, e, WithCook(NewOrder(e), cook)), wrote |-> TRUE]
  ELSE [coll |-> coll, wrote |-> FALSE]

\* The transaction of processOrderRetryIdempotent: the collection it commits
\* and whether it wrote.
\*   if (!snapshot.exists) { order.cook = res.cook; transaction.set(doc, order); }
OrderTransaction(coll, e, cook) ==
  IF ~SnapshotExists(coll, e)
  THEN [coll |-> DocSet(coll, e, WithCook(NewOrder(e), cook)), wrote |-> TRUE]
  ELSE [coll |-> coll, wrote |-> FALSE]

\* body: {id: order.id}
PrepareMealBody(e) == [id |-> NewOrder(e).id]

\* The orders stored for event e, whatever their document id.
OrdersOf(e) == {d \in incomingRetryIdempotent : d.data.id = e}
RetryOrdersOf(e) == {d \in incomingRetry : d.data.id = e}

\* ------------------------------------------------------------ caller.js
\* promiseRetry({retries: 10, factor: 2, randomize: true}, ...)
retries == 10
factor == 2
\* The option minTimeout is not given: promise-retry waits 1000 ms before
\* the first retry.
minTimeout == 1000
\* randomize: each timeout is multiplied by a random factor between 1 and 2,
\* here 1.0 or 1.9, in tenths.
RandomTenths == {10, 19}
\* The delay before retry number i (the first retry is number 1):
\* Math.round(random * minTimeout * factor^(i - 1)).
RetryTimeout(i, r) == (r * minTimeout * factor ^ (i - 1)) \div 10
\* Mutant of CanRetry: one retry more is granted.
CanRetryOnceMore(n) == n <= retries + 1

\* retry(err) after attempt number n: promise-retry schedules another
\* attempt while fewer than `retries` retries were made, and rejects with err
\* otherwise.
CanRetry(n) == n <= retries

\* ---------------------------------------------------------- initial state
EmailInit ==
  /\ now = 0
  /\ sentEmails = [e \in Events |-> NoDoc]
  /\ contents = {}
  /\ epc = [a \in Attempts |-> "idle"]
  /\ eev = [a \in Attempts |-> 1]
  /\ decision = [a \in Attempts |-> "none"]
  /\ heldLease = [a \in Attempts |-> 0]
  /\ eoutcome = [a \in Attempts |-> "none"]
  /\ emailsSent = [e \in Events |-> 0]
  /\ firstGrant = [e \in Events |-> -1]
  /\ windowRuns = [e \in Events |-> 0]
  /\ flakyRequest = [a \in Attempts |-> NoRequest]

OrderInit ==
  /\ incomingRetryIdempotent = {}
  /\ incomingRetry = {}
  /\ opc = [a \in OrderAttempts |-> "idle"]
  /\ oev = [a \in OrderAttempts |-> 1]
  /\ resCook = [a \in OrderAttempts |-> "none"]
  /\ ooutcome = [a \in OrderAttempts |-> "none"]
  /\ orderWrites = [e \in OrderEvents |-> 0]
  /\ notifyCalls = [e \in OrderEvents |-> 0]
  /\ notified = [e \in OrderEvents |-> FALSE]
  /\ prepareMealRequest = [a \in OrderAttempts |-> NoRequest]

\* node caller.js has been started; promiseRetry has not run fn yet.
CallerInit ==
  /\ cpc = "start"
  /\ number = 0
  /\ timeout = 0
  /\ err = "none"
  /\ hpc = "idle"
  /\ succeeded = 0
  /\ failed = 0

Init == EmailInit /\ OrderInit /\ CallerInit

\* ------------------------------------------- idempotentEmailFunction
\* Pub/Sub delivers event e (a first delivery, a duplicate or a redelivery
\* after a failure) and the platform starts an execution; executions are
\* interchangeable, so it is numbered with the first free index.
EmailDeliver(a, e) ==
  /\ epc[a] = "idle"
  /\ \A b \in Attempts : b < a => epc[b] # "idle"
  /\ epc' = [epc EXCEPT ![a] = "decide"]
  /\ eev' = [eev EXCEPT ![a] = e]
  /\ decision' = [decision EXCEPT ![a] = "none"]
  /\ heldLease' = [heldLease EXCEPT ![a] = 0]
  /\ eoutcome' = [eoutcome EXCEPT ![a] = "none"]
  /\ UNCHANGED <<now, sentEmails, emailsSent, firstGrant, windowRuns,
                 contents, flakyRequest, orderVars, callerVars>>

\* Whether time t lies in the lease window opened by the first grant.
InFirstWindow(e, t) ==
  firstGrant[e] >= 0 /\ firstGrant[e] <= t /\ t < firstGrant[e] + leaseTime

\* Mutant of Decide: the callback sends without testing `send`.
DecideIgnoresResult(a) ==
  /\ epc[a] = "decide"
  /\ LET e == eev[a]
         r == shouldSendWithLease(sentEmails[e], now)
     IN /\ sentEmails' = [sentEmails EXCEPT ![e] = r.doc]
        /\ heldLease' = [heldLease EXCEPT ![a] =
                           IF r.result = "true" THEN r.doc.data.lease ELSE 0]
        /\ IF r.result = "true"
           THEN /\ firstGrant' = [firstGrant EXCEPT ![e] = IF @ < 0 THEN now ELSE @]
                /\ windowRuns' = [windowRuns EXCEPT ![e] =
                     IF firstGrant[e] < 0 \/ InFirstWindow(e, now) THEN Inc(@) ELSE @]
           ELSE UNCHANGED <<firstGrant, windowRuns>>
        /\ IF r.result = "rejected"
           THEN /\ epc' = [epc EXCEPT ![a] = "idle"]
                /\ eoutcome' = [eoutcome EXCEPT ![a] = "rejected"]
                /\ UNCHANGED decision
           ELSE /\ epc' = [epc EXCEPT ![a] = "send"]
                /\ decision' = [decision EXCEPT ![a] = r.result]
                /\ UNCHANGED eoutcome
  /\ UNCHANGED <<now, eev, emailsSent, contents, flakyRequest, orderVars,
                 callerVars>>

\* db.runTransaction(...) of shouldSendWithLease commits: read, decide and
\* write are one atomic step.  false skips to the flaky call, a rejection
\* ends the execution with a rejected promise, true goes on to send.
Decide(a) ==
  /\ epc[a] = "decide"
  /\ LET e == eev[a]
         r == shouldSendWithLease(sentEmails[e], now)
     IN /\ sentEmails' = [sentEmails EXCEPT ![e] = r.doc]
        /\ flakyRequest' = [flakyRequest EXCEPT ![a] =
             IF r.result = "false" THEN Request(KeyPath(e), EventContent(e))
             ELSE NoRequest]
        /\ heldLease' = [heldLease EXCEPT ![a] =
                           IF r.result = "true" THEN r.doc.data.lease ELSE 0]
        /\ IF r.result = "true"
           THEN /\ firstGrant' = [firstGrant EXCEPT ![e] = IF @ < 0 THEN now ELSE @]
                /\ windowRuns' = [windowRuns EXCEPT ![e] =
                     IF firstGrant[e] < 0 \/ InFirstWindow(e, now) THEN Inc(@) ELSE @]
           ELSE UNCHANGED <<firstGrant, windowRuns>>
        /\ IF r.result = "rejected"
           THEN /\ epc' = [epc EXCEPT ![a] = "idle"]
                /\ eoutcome' = [eoutcome EXCEPT ![a] = "rejected"]
                /\ UNCHANGED decision
           ELSE /\ epc' = [epc EXCEPT ![a] =
                             IF r.result = "true" THEN "send" ELSE "flaky"]
                /\ decision' = [decision EXCEPT ![a] = r.result]
                /\ UNCHANGED eoutcome
  /\ UNCHANGED <<now, eev, emailsSent, contents, orderVars, callerVars>>

\* Mutant of DecideFail: the failed transaction leaves its lease write behind.
DecideFailAfterWrite(a) ==
  /\ epc[a] = "decide"
  /\ epc' = [epc EXCEPT ![a] = "idle"]
  /\ eoutcome' = [eoutcome EXCEPT ![a] = "failed"]
  /\ sentEmails' = [sentEmails EXCEPT ![eev[a]] = NewLease(now)]
  /\ UNCHANGED <<now, eev, decision, heldLease, emailsSent, firstGrant,
                 windowRuns, contents, flakyRequest, orderVars, callerVars>>

\* The transaction fails (Firestore unavailable, contention retries used
\* up): runTransaction rejects and nothing is written.
DecideFail(a) ==
  /\ epc[a] = "decide"
  /\ epc' = [epc EXCEPT ![a] = "idle"]
  /\ eoutcome' = [eoutcome EXCEPT ![a] = "failed"]
  /\ UNCHANGED <<now, sentEmails, eev, decision, heldLease, emailsSent,
                 firstGrant, windowRuns, contents, flakyRequest, orderVars,
                 callerVars>>

\* Mutant of Send: the branch goes to markSent without sending.
SendSkipped(a) ==
  /\ epc[a] = "send"
  /\ epc' = [epc EXCEPT ![a] = "mark"]
  /\ UNCHANGED <<now, sentEmails, eev, decision, heldLease, eoutcome,
                 emailsSent, firstGrant, windowRuns, contents, flakyRequest,
                 orderVars, callerVars>>

\* if (send) { console.log(`Sending email ...`); sgMail.send(email); ...
Send(a) ==
  /\ epc[a] = "send"
  /\ emailsSent' = [emailsSent EXCEPT ![eev[a]] = Inc(@)]
  /\ epc' = [epc EXCEPT ![a] = "mark"]
  /\ UNCHANGED <<now, sentEmails, eev, decision, heldLease, eoutcome,
                 firstGrant, windowRuns, contents, flakyRequest, orderVars,
                 callerVars>>

\* ... return markSent(emailRef); } : the write takes effect.  The next
\* .then issues the request to /flaky/${eventId}.
MarkSent(a) ==
  /\ epc[a] = "mark"
  /\ sentEmails' = [sentEmails EXCEPT ![eev[a]] = markSent]
  /\ heldLease' = [heldLease EXCEPT ![a] = 0]
  /\ epc' = [epc EXCEPT ![a] = "flaky"]
  /\ flakyRequest' = [flakyRequest EXCEPT ![a] =
                        Request(KeyPath(eev[a]), EventContent(eev[a]))]
  /\ UNCHANGED <<now, eev, decision, eoutcome, emailsSent, firstGrant,
                 windowRuns, contents, orderVars, callerVars>>

\* The markSent write fails: the promise chain rejects.
MarkSentFail(a) ==
  /\ epc[a] = "mark"
  /\ epc' = [epc EXCEPT ![a] = "idle"]
  /\ eoutcome' = [eoutcome EXCEPT ![a] = "failed"]
  /\ decision' = [decision EXCEPT ![a] = "none"]
  /\ heldLease' = [heldLease EXCEPT ![a] = 0]
  /\ UNCHANGED <<now, sentEmails, eev, emailsSent, firstGrant, windowRuns,
                 contents, flakyRequest, orderVars, callerVars>>

\* flaky answers the request with 200 or 500.
Flaky(a, ok) ==
  /\ epc[a] = "flaky"
  /\ epc' = [epc EXCEPT ![a] = "idle"]
  /\ eoutcome' = [eoutcome EXCEPT ![a] = IF ok THEN "ok" ELSE "failed"]
  /\ decision' = [decision EXCEPT ![a] = "none"]
  /\ heldLease' = [heldLease EXCEPT ![a] = 0]
  /\ flakyRequest' = [flakyRequest EXCEPT ![a] = NoRequest]
  /\ UNCHANGED <<now, sentEmails, eev, emailsSent, firstGrant, windowRuns,
                 contents, orderVars, callerVars>>

\* The execution dies between two steps (instance crash, function timeout).
EmailCrash(a) ==
  /\ epc[a] \in {"decide", "send", "mark", "flaky"}
  /\ epc' = [epc EXCEPT ![a] = "idle"]
  /\ eoutcome' = [eoutcome EXCEPT ![a] = "crashed"]
  /\ decision' = [decision EXCEPT ![a] = "none"]
  /\ heldLease' = [heldLease EXCEPT ![a] = 0]
  /\ flakyRequest' = [flakyRequest EXCEPT ![a] = NoRequest]
  /\ UNCHANGED <<now, sentEmails, eev, emailsSent, firstGrant, windowRuns,
                 contents, orderVars, callerVars>>

\* Time passes.
Tick ==
  /\ now + TickMs <= MaxNow
  /\ now' = now + TickMs
  /\ UNCHANGED <<sentEmails, epc, eev, decision, heldLease, eoutcome,
                 emailsSent, firstGrant, windowRuns, contents, flakyRequest,
                 orderVars, callerVars>>

EmailNext ==
  \/ \E a \in Attempts, e \in Events : EmailDeliver(a, e)
  \/ \E a \in Attempts : Decide(a)
  \/ \E a \in Attempts : DecideFail(a)
  \/ \E a \in Attempts : Send(a)
  \/ \E a \in Attempts : MarkSent(a)
  \/ \E a \in Attempts : MarkSentFail(a)
  \/ \E a \in Attempts, ok \in BOOLEAN : Flaky(a, ok)
  \/ \E a \in Attempts : EmailCrash(a)
  \/ Tick

\* The e-mail functions alone.
EmailSpec == Init /\ [][EmailNext]_vars

\* Redelivery and fairness.  The function is deployed with --retry, so
\* Pub/Sub keeps delivering an event; the clock advances; the transaction,
\* the send and the markSent write succeed infinitely often when they keep
\* being tried, and a request to flaky is answered.
\* The clock of the model stops at MaxNow, and a lease that runs out later
\* is never seen to run out: here an execution fails while it holds a lease
\* only if that lease runs out by MaxNow.
LeaseRunsOut(a) == heldLease[a] <= MaxNow
EmailLiveNext ==
  \/ \E a \in Attempts, e \in Events : EmailDeliver(a, e)
  \/ \E a \in Attempts : Decide(a)
  \/ \E a \in Attempts : DecideFail(a)
  \/ \E a \in Attempts : Send(a)
  \/ \E a \in Attempts : MarkSent(a)
  \/ \E a \in Attempts : LeaseRunsOut(a) /\ MarkSentFail(a)
  \/ \E a \in Attempts, ok \in BOOLEAN : Flaky(a, ok)
  \/ \E a \in Attempts : LeaseRunsOut(a) /\ EmailCrash(a)
  \/ Tick
EmailFairness ==
  /\ WF_vars(Tick)
  /\ WF_vars(\E a \in Attempts, ok \in BOOLEAN : Flaky(a, ok))
  /\ \A e \in Events :
       /\ SF_vars(\E a \in Attempts : EmailDeliver(a, e))
       /\ SF_vars(\E a \in Attempts : eev[a] = e /\ Decide(a))
       /\ SF_vars(\E a \in Attempts : eev[a] = e /\ Send(a))
       /\ SF_vars(\E a \in Attempts : eev[a] = e /\ MarkSent(a))
EmailLiveSpec == Init /\ [][EmailLiveNext]_vars /\ EmailFairness

\* ------------------------------------- almostIdempotentEmailFunction
\* Pub/Sub delivers event e to almostIdempotentEmailFunction, which issues
\* the read of shouldSend, emailRef.get().
AlmostDeliver(a, e) ==
  /\ epc[a] = "idle"
  /\ \A b \in Attempts : b < a => epc[b] # "idle"
  /\ epc' = [epc EXCEPT ![a] = "shouldSend"]
  /\ eev' = [eev EXCEPT ![a] = e]
  /\ decision' = [decision EXCEPT ![a] = "none"]
  /\ eoutcome' = [eoutcome EXCEPT ![a] = "none"]
  /\ UNCHANGED <<now, sentEmails, contents, heldLease, emailsSent, firstGrant,
                 windowRuns, flakyRequest, orderVars, callerVars>>

\* The read is answered and shouldSend resolves: true goes on to send (and
\* markSent, the same code as in idempotentEmailFunction), false skips to
\* the flaky call.  Nothing is written.
ShouldSend(a) ==
  /\ epc[a] = "shouldSend"
  /\ LET send == shouldSend(sentEmails[eev[a]])
     IN /\ decision' = [decision EXCEPT ![a] = IF send THEN "true" ELSE "false"]
        /\ epc' = [epc EXCEPT ![a] = IF send THEN "send" ELSE "flaky"]
        /\ flakyRequest' = [flakyRequest EXCEPT ![a] =
             IF send THEN NoRequest ELSE Request(KeyPath(eev[a]), EventContent(eev[a]))]
  /\ UNCHANGED <<now, sentEmails, contents, eev, heldLease, eoutcome,
                 emailsSent, firstGrant, windowRuns, orderVars, callerVars>>

\* The read fails: the chain rejects.
ShouldSendFail(a) ==
  /\ epc[a] = "shouldSend"
  /\ epc' = [epc EXCEPT ![a] = "idle"]
  /\ eoutcome' = [eoutcome EXCEPT ![a] = "failed"]
  /\ UNCHANGED <<now, sentEmails, contents, eev, decision, heldLease,
                 emailsSent, firstGrant, windowRuns, flakyRequest, orderVars,
                 callerVars>>

\* The execution dies while the read is pending.
ShouldSendCrash(a) ==
  /\ epc[a] = "shouldSend"
  /\ epc' = [epc EXCEPT ![a] = "idle"]
  /\ eoutcome' = [eoutcome EXCEPT ![a] = "crashed"]
  /\ UNCHANGED <<now, sentEmails, contents, eev, decision, heldLease,
                 emailsSent, firstGrant, windowRuns, flakyRequest, orderVars,
                 callerVars>>

AlmostNext ==
  \/ \E a \in Attempts, e \in Events : AlmostDeliver(a, e)
  \/ \E a \in Attempts : ShouldSend(a)
  \/ \E a \in Attempts : ShouldSendFail(a)
  \/ \E a \in Attempts : ShouldSendCrash(a)
  \/ \E a \in Attempts : Send(a)
  \/ \E a \in Attempts : MarkSent(a)
  \/ \E a \in Attempts : MarkSentFail(a)
  \/ \E a \in Attempts, ok \in BOOLEAN : Flaky(a, ok)
  \/ \E a \in Attempts : EmailCrash(a)

\* almostIdempotentEmailFunction alone.
AlmostSpec == Init /\ [][AlmostNext]_vars

\* --------------------------------------- idempotentFirestoreFunction
\* Pub/Sub delivers event e to idempotentFirestoreFunction, which issues
\* db.collection('contents').doc(eventId).set(content).
FirestoreDeliver(a, e) ==
  /\ epc[a] = "idle"
  /\ \A b \in Attempts : b < a => epc[b] # "idle"
  /\ epc' = [epc EXCEPT ![a] = "contents:set"]
  /\ eev' = [eev EXCEPT ![a] = e]
  /\ eoutcome' = [eoutcome EXCEPT ![a] = "none"]
  /\ UNCHANGED <<now, sentEmails, contents, decision, heldLease, emailsSent,
                 firstGrant, windowRuns, flakyRequest, orderVars, callerVars>>

\* Mutant of ContentsSet: the document is written with add().
ContentsSetAdds(a) ==
  /\ epc[a] = "contents:set"
  /\ Cardinality(contents) < MaxContentDocs
  /\ contents' = DocAdd(contents, EventContent(eev[a]))
  /\ epc' = [epc EXCEPT ![a] = "flaky"]
  /\ flakyRequest' = [flakyRequest EXCEPT ![a] =
                        Request(KeyPath(eev[a]), EventContent(eev[a]))]
  /\ UNCHANGED <<now, sentEmails, eev, decision, heldLease, eoutcome,
                 emailsSent, firstGrant, windowRuns, orderVars, callerVars>>

\* doc(eventId).set(content) takes effect: the document is created or
\* overwritten, and the chain goes on to the request to flaky.
ContentsSet(a) ==
  /\ epc[a] = "contents:set"
  /\ contents' = DocSet(contents, eev[a], EventContent(eev[a]))
  /\ epc' = [epc EXCEPT ![a] = "flaky"]
  /\ flakyRequest' = [flakyRequest EXCEPT ![a] =
                        Request(KeyPath(eev[a]), EventContent(eev[a]))]
  /\ UNCHANGED <<now, sentEmails, eev, decision, heldLease, eoutcome,
                 emailsSent, firstGrant, windowRuns, orderVars, callerVars>>

\* The write to 'contents' (set or add) fails: the chain rejects.
ContentsWriteFail(a) ==
  /\ epc[a] \in {"contents:set", "contents:add"}
  /\ epc' = [epc EXCEPT ![a] = "idle"]
  /\ eoutcome' = [eoutcome EXCEPT ![a] = "failed"]
  /\ UNCHANGED <<now, sentEmails, contents, eev, decision, heldLease,
                 emailsSent, firstGrant, windowRuns, flakyRequest, orderVars,
                 callerVars>>

\* The execution dies while its write to 'contents' is pending.
ContentsCrash(a) ==
  /\ epc[a] \in {"contents:set", "contents:add"}
  /\ epc' = [epc EXCEPT ![a] = "idle"]
  /\ eoutcome' = [eoutcome EXCEPT ![a] = "crashed"]
  /\ UNCHANGED <<now, sentEmails, contents, eev, decision, heldLease,
                 emailsSent, firstGrant, windowRuns, flakyRequest, orderVars,
                 callerVars>>

FirestoreNext ==
  \/ \E a \in Attempts, e \in Events : FirestoreDeliver(a, e)
  \/ \E a \in Attempts : ContentsSet(a)
  \/ \E a \in Attempts : ContentsWriteFail(a)
  \/ \E a \in Attempts : ContentsCrash(a)
  \/ \E a \in Attempts, ok \in BOOLEAN : Flaky(a, ok)
  \/ \E a \in Attempts : EmailCrash(a)

\* idempotentFirestoreFunction alone.
FirestoreSpec == Init /\ [][FirestoreNext]_vars

\* ------------------------------------ nonIdempotentFirestoreFunction
\* Pub/Sub delivers event e to nonIdempotentFirestoreFunction, which issues
\* db.collection('contents').add(content).
NoneDeliver(a, e) ==
  /\ epc[a] = "idle"
  /\ \A b \in Attempts : b < a => epc[b] # "idle"
  /\ epc' = [epc EXCEPT ![a] = "contents:add"]
  /\ eev' = [eev EXCEPT ![a] = e]
  /\ eoutcome' = [eoutcome EXCEPT ![a] = "none"]
  /\ UNCHANGED <<now, sentEmails, contents, decision, heldLease, emailsSent,
                 firstGrant, windowRuns, flakyRequest, orderVars, callerVars>>

\* add(content) takes effect: one more document, and the chain goes on to
\* the request to flaky.
ContentsAdd(a) ==
  /\ epc[a] = "contents:add"
  /\ Cardinality(contents) < MaxContentDocs
  /\ contents' = DocAdd(contents, EventContent(eev[a]))
  /\ epc' = [epc EXCEPT ![a] = "flaky"]
  /\ flakyRequest' = [flakyRequest EXCEPT ![a] =
                        Request(PlainPath, EventContent(eev[a]))]
  /\ UNCHANGED <<now, sentEmails, eev, decision, heldLease, eoutcome,
                 emailsSent, firstGrant, windowRuns, orderVars, callerVars>>

NoneFirestoreNext ==
  \/ \E a \in Attempts, e \in Events : NoneDeliver(a, e)
  \/ \E a \in Attempts : ContentsAdd(a)
  \/ \E a \in Attempts : ContentsWriteFail(a)
  \/ \E a \in Attempts : ContentsCrash(a)
  \/ \E a \in Attempts, ok \in BOOLEAN : Flaky(a, ok)
  \/ \E a \in Attempts : EmailCrash(a)

\* --------------------------------------- processOrderRetryIdempotent
\* Pub/Sub delivers order event e; the execution builds `order` and issues
\* the GET to chooseCook right away.
OrderDeliver(a, e) ==
  /\ opc[a] = "idle"
  /\ opc' = [opc EXCEPT ![a] = "chooseCook"]
  /\ oev' = [oev EXCEPT ![a] = e]
  /\ ooutcome' = [ooutcome EXCEPT ![a] = "none"]
  /\ UNCHANGED <<resCook, incomingRetryIdempotent, orderWrites, notifyCalls,
                 notified, prepareMealRequest, incomingRetry, emailVars,
                 callerVars>>

\* chooseCook answers 200 with {cook: randomItem(cooks)}.
ChooseCookOk(a, c) ==
  /\ opc[a] = "chooseCook"
  /\ resCook' = [resCook EXCEPT ![a] = c]
  /\ opc' = [opc EXCEPT ![a] = "store"]
  /\ UNCHANGED <<oev, ooutcome, incomingRetryIdempotent, orderWrites,
                 notifyCalls, notified, prepareMealRequest, incomingRetry,
                 emailVars, callerVars>>

\* chooseCook answers 500: the request promise rejects, the chain is skipped.
ChooseCookFail(a) ==
  /\ opc[a] = "chooseCook"
  /\ opc' = [opc EXCEPT ![a] = "idle"]
  /\ ooutcome' = [ooutcome EXCEPT ![a] = "failed"]
  /\ UNCHANGED <<oev, resCook, incomingRetryIdempotent, orderWrites,
                 notifyCalls, notified, prepareMealRequest, incomingRetry,
                 emailVars, callerVars>>

\* Mutant of StoreOrder: an order that is already stored makes the
\* transaction reject instead of being skipped.
StoreOrderRejectsDuplicate(a) ==
  /\ opc[a] = "store"
  /\ LET e == oev[a]
         r == OrderTransaction(incomingRetryIdempotent, e, resCook[a])
     IN /\ incomingRetryIdempotent' = r.coll
        /\ orderWrites' = [orderWrites EXCEPT ![e] = IF r.wrote THEN Inc(@) ELSE @]
        /\ opc' = [opc EXCEPT ![a] = IF r.wrote THEN "notify" ELSE "idle"]
        /\ prepareMealRequest' = [prepareMealRequest EXCEPT ![a] =
             IF r.wrote THEN Request(SlashPath, PrepareMealBody(oev[a])) ELSE NoRequest]
        /\ resCook' = [resCook EXCEPT ![a] = IF r.wrote THEN @ ELSE "none"]
        /\ ooutcome' = [ooutcome EXCEPT ![a] = IF r.wrote THEN @ ELSE "failed"]
  /\ UNCHANGED <<oev, notifyCalls, notified, incomingRetry, emailVars,
                 callerVars>>

\* db.runTransaction(...) commits: get and conditional set are one step.
\* The next .then issues the POST to prepareMeal with body {id: order.id}.
StoreOrder(a) ==
  /\ opc[a] = "store"
  /\ LET e == oev[a]
         r == OrderTransaction(incomingRetryIdempotent, e, resCook[a])
     IN /\ incomingRetryIdempotent' = r.coll
        /\ orderWrites' = [orderWrites EXCEPT ![e] = IF r.wrote THEN Inc(@) ELSE @]
  /\ opc' = [opc EXCEPT ![a] = "notify"]
  /\ prepareMealRequest' = [prepareMealRequest EXCEPT ![a] =
                              Request(SlashPath, PrepareMealBody(oev[a]))]
  /\ UNCHANGED <<oev, resCook, ooutcome, notifyCalls, notified, incomingRetry,
                 emailVars, callerVars>>

\* Mutant of StoreOrderFail: the failure of the transaction is swallowed
\* and the chain goes on to the prepareMeal call.
StoreOrderFailSwallowed(a) ==
  /\ opc[a] = "store"
  /\ opc' = [opc EXCEPT ![a] = "notify"]
  /\ prepareMealRequest' = [prepareMealRequest EXCEPT ![a] =
                              Request(SlashPath, PrepareMealBody(oev[a]))]
  /\ UNCHANGED <<oev, resCook, ooutcome, incomingRetryIdempotent, orderWrites,
                 notifyCalls, notified, incomingRetry, emailVars, callerVars>>

\* The transaction fails: nothing is written and the chain rejects.
StoreOrderFail(a) ==
  /\ opc[a] = "store"
  /\ opc' = [opc EXCEPT ![a] = "idle"]
  /\ resCook' = [resCook EXCEPT ![a] = "none"]
  /\ ooutcome' = [ooutcome EXCEPT ![a] = "failed"]
  /\ UNCHANGED <<oev, incomingRetryIdempotent, orderWrites, notifyCalls,
                 notified, prepareMealRequest, incomingRetry, emailVars,
                 callerVars>>

\* prepareMeal receives the POST and answers 200 or 500.
PrepareMeal(a, ok) ==
  /\ opc[a] = "notify"
  /\ LET id == prepareMealRequest[a].body.id
     IN /\ notifyCalls' = [notifyCalls EXCEPT ![id] = Inc(@)]
        /\ notified' = [notified EXCEPT ![id] = @ \/ ok]
  /\ opc' = [opc EXCEPT ![a] = "idle"]
  /\ resCook' = [resCook EXCEPT ![a] = "none"]
  /\ ooutcome' = [ooutcome EXCEPT ![a] = IF ok THEN "ok" ELSE "failed"]
  /\ prepareMealRequest' = [prepareMealRequest EXCEPT ![a] = NoRequest]
  /\ UNCHANGED <<oev, incomingRetryIdempotent, orderWrites, incomingRetry,
                 emailVars, callerVars>>

\* The execution dies between two steps (instance crash, function timeout).
OrderCrash(a) ==
  /\ opc[a] \in {"chooseCook", "store", "notify"}
  /\ opc' = [opc EXCEPT ![a] = "idle"]
  /\ resCook' = [resCook EXCEPT ![a] = "none"]
  /\ ooutcome' = [ooutcome EXCEPT ![a] = "crashed"]
  /\ prepareMealRequest' = [prepareMealRequest EXCEPT ![a] = NoRequest]
  /\ UNCHANGED <<oev, incomingRetryIdempotent, orderWrites, notifyCalls,
                 notified, incomingRetry, emailVars, callerVars>>

OrderNext ==
  \/ \E a \in OrderAttempts, e \in OrderEvents : OrderDeliver(a, e)
  \/ \E a \in OrderAttempts, c \in CookChoices : ChooseCookOk(a, c)
  \/ \E a \in OrderAttempts : ChooseCookFail(a)
  \/ \E a \in OrderAttempts : StoreOrder(a)
  \/ \E a \in OrderAttempts : StoreOrderFail(a)
  \/ \E a \in OrderAttempts, ok \in BOOLEAN : PrepareMeal(a, ok)
  \/ \E a \in OrderAttempts : OrderCrash(a)

\* The idempotent order pipeline alone.
OrderSpec == Init /\ [][OrderNext]_vars

\* Redelivery and fairness: Pub/Sub keeps delivering the event (--retry),
\* and the calls its executions make to chooseCook, to Firestore and to
\* prepareMeal succeed infinitely often when they keep being made.
OrderFairness ==
  \A e \in OrderEvents :
    /\ SF_vars(\E a \in OrderAttempts : OrderDeliver(a, e))
    /\ SF_vars(\E a \in OrderAttempts, c \in CookChoices : oev[a] = e /\ ChooseCookOk(a, c))
    /\ SF_vars(\E a \in OrderAttempts : oev[a] = e /\ StoreOrder(a))
    /\ SF_vars(\E a \in OrderAttempts : oev[a] = e /\ PrepareMeal(a, TRUE))

OrderLiveSpec == OrderSpec /\ OrderFairness

\* ------------------- processOrderRetry (nonIdempotentProcessOrder)
\* Pub/Sub delivers order event e to processOrderRetry, which runs
\* nonIdempotentProcessOrder('incomingRetry', event): the execution builds
\* `order` and issues the GET to chooseCook.
RetryDeliver(a, e) ==
  /\ opc[a] = "idle"
  /\ opc' = [opc EXCEPT ![a] = "retry:chooseCook"]
  /\ oev' = [oev EXCEPT ![a] = e]
  /\ ooutcome' = [ooutcome EXCEPT ![a] = "none"]
  /\ UNCHANGED <<resCook, incomingRetryIdempotent, incomingRetry, orderWrites,
                 notifyCalls, notified, prepareMealRequest, emailVars,
                 callerVars>>

\* chooseCook answers 200 with {cook: randomItem(cooks)}.
RetryChooseCookOk(a, c) ==
  /\ opc[a] = "retry:chooseCook"
  /\ resCook' = [resCook EXCEPT ![a] = c]
  /\ opc' = [opc EXCEPT ![a] = "retry:add"]
  /\ UNCHANGED <<oev, ooutcome, incomingRetryIdempotent, incomingRetry,
                 orderWrites, notifyCalls, notified, prepareMealRequest,
                 emailVars, callerVars>>

\* chooseCook answers 500: "The code below is not executed".
RetryChooseCookFail(a) ==
  /\ opc[a] = "retry:chooseCook"
  /\ opc' = [opc EXCEPT ![a] = "idle"]
  /\ ooutcome' = [ooutcome EXCEPT ![a] = "failed"]
  /\ UNCHANGED <<oev, resCook, incomingRetryIdempotent, incomingRetry,
                 orderWrites, notifyCalls, notified, prepareMealRequest,
                 emailVars, callerVars>>

\* order.cook = res.cook; db.collection(collection).add(order) takes effect.
\* The next .then issues the POST to prepareMeal with body `order`.
RetryAdd(a) ==
  /\ opc[a] = "retry:add"
  /\ Cardinality(incomingRetry) < MaxRetryDocs
  /\ incomingRetry' = DocAdd(incomingRetry, WithCook(NewOrder(oev[a]), resCook[a]))
  /\ opc' = [opc EXCEPT ![a] = "retry:notify"]
  /\ prepareMealRequest' = [prepareMealRequest EXCEPT ![a] =
       Request(SlashPath, WithCook(NewOrder(oev[a]), resCook[a]))]
  /\ UNCHANGED <<oev, resCook, ooutcome, incomingRetryIdempotent, orderWrites,
                 notifyCalls, notified, emailVars, callerVars>>

\* The add fails: nothing is written and the chain rejects.
RetryAddFail(a) ==
  /\ opc[a] = "retry:add"
  /\ opc' = [opc EXCEPT ![a] = "idle"]
  /\ resCook' = [resCook EXCEPT ![a] = "none"]
  /\ ooutcome' = [ooutcome EXCEPT ![a] = "failed"]
  /\ UNCHANGED <<oev, incomingRetryIdempotent, incomingRetry, orderWrites,
                 notifyCalls, notified, prepareMealRequest, emailVars,
                 callerVars>>

\* prepareMeal receives the POST and answers 200 or 500.
RetryPrepareMeal(a, ok) ==
  /\ opc[a] = "retry:notify"
  /\ LET id == prepareMealRequest[a].body.id
     IN /\ notifyCalls' = [notifyCalls EXCEPT ![id] = Inc(@)]
        /\ notified' = [notified EXCEPT ![id] = @ \/ ok]
  /\ opc' = [opc EXCEPT ![a] = "idle"]
  /\ resCook' = [resCook EXCEPT ![a] = "none"]
  /\ ooutcome' = [ooutcome EXCEPT ![a] = IF ok THEN "ok" ELSE "failed"]
  /\ prepareMealRequest' = [prepareMealRequest EXCEPT ![a] = NoRequest]
  /\ UNCHANGED <<oev, incomingRetryIdempotent, incomingRetry, orderWrites,
                 emailVars, callerVars>>

\* The execution dies between two steps (instance crash, function timeout).
RetryCrash(a) ==
  /\ opc[a] \in {"retry:chooseCook", "retry:add", "retry:notify"}
  /\ opc' = [opc EXCEPT ![a] = "idle"]
  /\ resCook' = [resCook EXCEPT ![a] = "none"]
  /\ ooutcome' = [ooutcome EXCEPT ![a] = "crashed"]
  /\ prepareMealRequest' = [prepareMealRequest EXCEPT ![a] = NoRequest]
  /\ UNCHANGED <<oev, incomingRetryIdempotent, incomingRetry, orderWrites,
                 notifyCalls, notified, emailVars, callerVars>>

RetryNext ==
  \/ \E a \in OrderAttempts, e \in OrderEvents : RetryDeliver(a, e)
  \/ \E a \in OrderAttempts, c \in CookChoices : RetryChooseCookOk(a, c)
  \/ \E a \in OrderAttempts : RetryChooseCookFail(a)
  \/ \E a \in OrderAttempts : RetryAdd(a)
  \/ \E a \in OrderAttempts : RetryAddFail(a)
  \/ \E a \in OrderAttempts, ok \in BOOLEAN : RetryPrepareMeal(a, ok)
  \/ \E a \in OrderAttempts : RetryCrash(a)

\* The functions without any duplicate check, nonIdempotentFirestoreFunction
\* and processOrderRetry.  They share no state, so a behaviour follows one
\* of them: each runs only while the other has not been triggered.
ContentsUntouched ==
  contents = {} /\ \A a \in Attempts : epc[a] = "idle" /\ eoutcome[a] = "none"
RetryUntouched ==
  incomingRetry = {} /\ \A a \in OrderAttempts : opc[a] = "idle" /\ ooutcome[a] = "none"
NoneNext ==
  \/ RetryUntouched /\ NoneFirestoreNext
  \/ ContentsUntouched /\ RetryNext
NoneSpec == Init /\ [][NoneNext]_vars

\* Both order pipelines, deployed side by side on their own topics.
PipelineNext == OrderNext \/ RetryNext
PipelineSpec == Init /\ [][PipelineNext]_vars

\* The two functions that record sent e-mails, almostIdempotentEmailFunction
\* and idempotentEmailFunction.  A behaviour follows one of them: each runs
\* only while the executions and the records show no work of the other.
\* Only idempotentEmailFunction reads the clock and grants leases.
LeaseUntouched ==
  /\ now = 0
  /\ \A e \in Events : firstGrant[e] < 0
  /\ \A a \in Attempts : epc[a] # "decide"
AlmostUntouched ==
  /\ \A a \in Attempts :
       /\ epc[a] # "shouldSend"
       /\ epc[a] \in {"send", "mark", "flaky"} => firstGrant[eev[a]] >= 0
  /\ \A e \in Events :
       (sentEmails[e].exists \/ emailsSent[e] > 0) => firstGrant[e] >= 0
RecordingNext ==
  \/ LeaseUntouched /\ AlmostNext
  \/ AlmostUntouched /\ EmailNext

\* The functions written to be idempotent: the two above,
\* idempotentFirestoreFunction and processOrderRetryIdempotent.  Again a
\* behaviour follows one of them.
OrderUntouched ==
  /\ incomingRetryIdempotent = {}
  /\ \A a \in OrderAttempts : opc[a] = "idle" /\ ooutcome[a] = "none"
FirestoreUntouched ==
  contents = {} /\ \A a \in Attempts : epc[a] # "contents:set"
RecordingUntouched ==
  /\ now = 0
  /\ \A e \in Events :
       ~sentEmails[e].exists /\ emailsSent[e] = 0 /\ firstGrant[e] < 0
  /\ \A a \in Attempts : epc[a] \notin {"decide", "shouldSend", "send", "mark"}
IdempotentNext ==
  \/ OrderUntouched /\ FirestoreUntouched /\ RecordingNext
  \/ OrderUntouched /\ RecordingUntouched /\ FirestoreNext
  \/ ContentsUntouched /\ now = 0 /\ OrderNext
IdempotentSpec == Init /\ [][IdempotentNext]_vars

\* ------------------------------------------- caller.js / httpFunction
\* promise-retry runs fn(retry, number), at the start or when the retry
\* timer fires: the attempt is logged and the POST to httpFunction issued.
CallerAttempt ==
  /\ cpc \in {"start", "backoff"}
  /\ number' = number + 1
  /\ cpc' = "request"
  /\ timeout' = 0
  /\ UNCHANGED <<err, hpc, succeeded, failed, emailVars, orderVars>>

\* httpFunction receives the request and posts req.body to flaky.
HttpFunction ==
  /\ cpc = "request" /\ hpc = "idle"
  /\ hpc' = "flaky"
  /\ UNCHANGED <<cpc, number, timeout, err, succeeded, failed, emailVars,
                 orderVars>>

\* flaky answers 200 or 500 (or the request fails): httpFunction sends
\* res.status(200) from its .then or res.status(500) from its .catch.
HttpFunctionResponds(ok) ==
  /\ hpc = "flaky"
  /\ hpc' = IF ok THEN "200" ELSE "500"
  /\ UNCHANGED <<cpc, number, timeout, err, succeeded, failed, emailVars,
                 orderVars>>

\* The caller receives status 200: the request promise resolves, so does
\* the promise of promiseRetry, and .then logs `Success!`.
CallerResolve ==
  /\ cpc = "request" /\ hpc = "200"
  /\ cpc' = "success"
  /\ succeeded' = succeeded + 1
  /\ hpc' = "idle"
  /\ UNCHANGED <<number, timeout, err, failed, emailVars, orderVars>>

\* The request promise rejects, with a StatusCodeError on status 500 or with
\* a RequestError when the request did not get through, and .catch(retry)
\* hands the error to promise-retry: another attempt after a randomized
\* timeout, or the rejection of promiseRetry and the log of `Failure.`.
CallerReject(e, r) ==
  /\ cpc = "request"
  /\ \/ hpc = "500" /\ e = "StatusCodeError"
     \/ hpc = "idle" /\ e = "RequestError"
  /\ err' = e
  /\ failed' = failed + 1
  /\ hpc' = "idle"
  /\ IF CanRetry(number)
     THEN cpc' = "backoff" /\ timeout' = RetryTimeout(number, r)
     ELSE cpc' = "failure" /\ timeout' = 0
  /\ UNCHANGED <<number, succeeded, emailVars, orderVars>>

CallerNext ==
  \/ CallerAttempt
  \/ HttpFunction
  \/ \E ok \in BOOLEAN : HttpFunctionResponds(ok)
  \/ CallerResolve
  \/ \E e \in {"StatusCodeError", "RequestError"}, r \in RandomTenths :
       CallerReject(e, r)

\* caller.js against httpFunction.
CallerSpec == Init /\ [][CallerNext]_vars
\* Every request is answered or fails, and timers fire: the event loop of
\* the caller and the execution of httpFunction keep taking their steps.
CallerFairness == WF_vars(CallerNext)
CallerLiveSpec == CallerSpec /\ CallerFairness

\* The samples share no state: the whole repository.
Next ==
  \/ EmailNext \/ AlmostNext \/ FirestoreNext \/ NoneFirestoreNext
  \/ OrderNext \/ RetryNext \/ CallerNext
Spec == Init /\ [][Next]_vars

\* ===================================================================
\* Properties.  The vocabulary of the specification, read off the stored
\* document alone: a record is Unseen (absent), Leased or Done.
\* ===================================================================
IsDone(doc) == doc.exists /\ "sent" \in DOMAIN doc.data /\ doc.data.sent
IsLeased(doc) == doc.exists /\ ~IsDone(doc) /\ "lease" \in DOMAIN doc.data
\* Execution a's shouldSendWithLease transaction commits in this step (an
\* execution leaves "decide" as failed only when the transaction fails).
Decides(a) ==
  epc[a] = "decide" /\ epc'[a] # "decide" /\ eoutcome'[a] \notin {"failed", "crashed"}
\* Execution a has a committed decision behind it in this state.
HasDecided(a) ==
  decision[a] \in {"true", "false"} \/ eoutcome[a] \in {"rejected", "ok"}

\* C1: of all the shouldSendWithLease calls on one event id made within
\* leaseTime of the first one, starting from an absent record, exactly one
\* resolved true; the others were rejected (lease held) or resolved false.
C1_ExactlyOneShouldRun ==
  \A e \in Events :
    /\ windowRuns[e] <= 1
    /\ \A a \in Attempts : (eev[a] = e /\ HasDecided(a)) => windowRuns[e] = 1

\* C1 witness: inside the first lease window one execution holds the lease
\* and a concurrent one for the same event was rejected.
C1_Witness ==
  \E e \in Events, a, b \in Attempts :
    /\ a # b /\ eev[a] = e /\ eev[b] = e
    /\ decision[a] = "true" /\ eoutcome[b] = "rejected"
    /\ InFirstWindow(e, now) /\ windowRuns[e] = 1

\* C2: for each event id the e-mail is sent at most once, whatever the
\* interleaving of deliveries, failures, crashes and lease expiries.
C2_AtMostOneSend == \A e \in Events : emailsSent[e] <= 1

\* C3: once the record of an event is Done it stays the same Done record in
\* every later step, and every shouldSendWithLease call that then commits
\* resolves false (the execution skips to the flaky call).
C3_DoneNeverRegresses ==
  [][\A e \in Events : IsDone(sentEmails[e]) =>
        /\ sentEmails'[e] = sentEmails[e]
        /\ \A a \in Attempts : (eev[a] = e /\ Decides(a)) =>
             (decision'[a] = "false" /\ epc'[a] = "flaky")]_vars

\* C3 witness: the record is Done and a later execution has decided false.
C3_Witness ==
  \E e \in Events, a \in Attempts :
    /\ IsDone(sentEmails[e]) /\ eev[a] = e
    /\ decision[a] = "false" /\ epc[a] = "flaky" /\ emailsSent[e] >= 1

\* C4: a shouldSendWithLease call that commits on a Leased record whose
\* lease time is already past resolves true and installs a new lease.
C4_CrashRecovery ==
  [][\A a \in Attempts :
        (/\ Decides(a)
         /\ IsLeased(sentEmails[eev[a]])
         /\ now > sentEmails[eev[a]].data.lease)
        => /\ decision'[a] = "true" /\ epc'[a] = "send"
           /\ IsLeased(sentEmails'[eev[a]])
           /\ sentEmails'[eev[a]].data.lease = now + leaseTime]_vars

\* C4 witness: an execution crashed, the first lease ran out more than a
\* tick ago, and another execution has just taken a new lease.
C4_Witness ==
  \E e \in Events, a, b \in Attempts :
    /\ eev[a] = e /\ eev[b] = e /\ eoutcome[b] = "crashed"
    /\ firstGrant[e] >= 0 /\ now > firstGrant[e] + leaseTime
    /\ windowRuns[e] = 1 /\ emailsSent[e] = 0
    /\ decision[a] = "true" /\ epc[a] = "send"
    /\ IsLeased(sentEmails[e]) /\ sentEmails[e].data.lease = now + leaseTime

\* C5: a call that commits on a Leased record at exactly now = lease
\* resolves true, and a call is rejected only when lease > now.
C5_LeaseBoundary ==
  [][\A a \in Attempts : Decides(a) =>
        /\ (IsLeased(sentEmails[eev[a]]) /\ now = sentEmails[eev[a]].data.lease)
             => (decision'[a] = "true" /\ epc'[a] = "send")
        /\ eoutcome'[a] = "rejected"
             => (IsLeased(sentEmails[eev[a]]) /\ sentEmails[eev[a]].data.lease > now)]_vars

\* C5 witness: the first lease expires exactly now and a second execution
\* took the lease at this very time.
C5_Witness ==
  \E e \in Events, a \in Attempts :
    /\ eev[a] = e /\ decision[a] = "true" /\ epc[a] = "send"
    /\ firstGrant[e] >= 0 /\ now = firstGrant[e] + leaseTime
    /\ IsLeased(sentEmails[e]) /\ sentEmails[e].data.lease = now + leaseTime

\* C6: the collection never holds two orders for one event, and at most one
\* transaction ever wrote an order for it.
C6_AtMostOneOrder ==
  \A e \in OrderEvents : Cardinality(OrdersOf(e)) <= 1 /\ orderWrites[e] <= 1

\* C6 witness: two executions of the same event are both past the store
\* transaction and one order is stored.
C6_Witness ==
  \E e \in OrderEvents, a, b \in OrderAttempts :
    /\ a # b /\ oev[a] = e /\ oev[b] = e
    /\ opc[a] = "notify" /\ opc[b] = "notify"
    /\ Cardinality(OrdersOf(e)) = 1 /\ orderWrites[e] = 1

\* C7 (as claimed): in total one prepareMeal call is issued per order id.
C7_ExactlyOneNotify == \A e \in OrderEvents : notifyCalls[e] <= 1

\* C7 (amended): every execution that gets past its store transaction issues
\* one prepareMeal call carrying that order's id, only once the order is
\* stored; prepareMeal is called in no other step.
C7_OneNotifyPerAttempt ==
  [][\A e \in OrderEvents :
        IF \E a \in OrderAttempts : /\ oev[a] = e /\ opc[a] = "notify"
                               /\ opc'[a] = "idle" /\ ooutcome'[a] # "crashed"
        THEN notifyCalls'[e] = Inc(notifyCalls[e]) /\ OrdersOf(e) # {}
        ELSE notifyCalls'[e] = notifyCalls[e]]_vars

\* C7 witness: two prepareMeal calls were issued for one stored order.
C7_Witness ==
  \E e \in OrderEvents : notifyCalls[e] = 2 /\ Cardinality(OrdersOf(e)) = 1

C9_CookNeverChanges ==
  [][\A e \in OrderEvents : \A d \in OrdersOf(e) :
        /\ OrdersOf(e)' # {}
        /\ \A d2 \in OrdersOf(e)' : d2.data.cook = d.data.cook]_vars

\* C9 witness: an execution to which chooseCook answered another cook than
\* the stored one is past its transaction.
C9_Witness ==
  \E e \in OrderEvents, a \in OrderAttempts, d \in incomingRetryIdempotent :
    /\ oev[a] = e /\ opc[a] = "notify" /\ d.data.id = e
    /\ resCook[a] \in CookChoices /\ resCook[a] # d.data.cook

\* C10: under redelivery and fairness every order event eventually has its
\* order stored and a prepareMeal call that succeeded.
C10_NoOrderLost ==
  \A e \in OrderEvents : <>(OrdersOf(e) # {} /\ notified[e])

\* C10 witness: an order is stored and notified although an execution for
\* it failed on the way.
C10_Witness ==
  \E e \in OrderEvents, a \in OrderAttempts :
    /\ OrdersOf(e) # {} /\ notified[e]
    /\ oev[a] = e /\ ooutcome[a] \in {"failed", "crashed"}

\* The executions of event e that shouldSendWithLease told to send and whose
\* markSent has not taken effect yet (between ShouldRun and markDone).
Running(e) ==
  {a \in Attempts : eev[a] = e /\ decision[a] = "true" /\ epc[a] \in {"send", "mark"}}

\* C11: for each event id at most one execution is between a true result of
\* shouldSendWithLease and its markSent, in every reachable state.
C11_AtMostOneRunning == \A e \in Events : Cardinality(Running(e)) <= 1

\* Execution a wrote a lease that has run out and that a later transaction
\* has replaced by a newer lease.
Superseded(a) ==
  /\ heldLease[a] > 0 /\ heldLease[a] <= now
  /\ IsLeased(sentEmails[eev[a]])
  /\ sentEmails[eev[a]].data.lease > heldLease[a]

\* C12: the markSent of an execution whose lease has expired and has been
\* superseded by a later re-lease does not take effect.
C12_NoZombieMarkSent ==
  [][\A a \in Attempts :
        Superseded(a) => ~(epc[a] = "mark" /\ epc'[a] = "flaky"
                             /\ IsDone(sentEmails'[eev[a]]))]_vars

\* C13: a shouldSendWithLease call that commits on a Leased record whose
\* lease is later than now rejects: the execution ends there with a rejected
\* promise, and neither the send, nor markSent, nor the flaky call happens
\* (the record and the send count stay as they are, nothing of the execution
\* is left to run).
C13_LeaseHeldFails ==
  [][\A a \in Attempts :
        (/\ Decides(a)
         /\ IsLeased(sentEmails[eev[a]])
         /\ sentEmails[eev[a]].data.lease > now)
        => /\ epc'[a] = "idle" /\ eoutcome'[a] = "rejected"
           /\ decision'[a] = "none"
           /\ sentEmails' = sentEmails /\ emailsSent' = emailsSent]_vars

\* C13 witness: an execution was rejected while the lease holder, which has
\* sent the e-mail, still waits for its markSent under a live lease.
C13_Witness ==
  \E e \in Events, a, b \in Attempts :
    /\ a # b /\ eev[a] = e /\ eev[b] = e
    /\ epc[a] = "idle" /\ eoutcome[a] = "rejected"
    /\ epc[b] = "mark" /\ heldLease[b] > now
    /\ IsLeased(sentEmails[e]) /\ sentEmails[e].data.lease = heldLease[b]
    /\ emailsSent[e] = 1

\* C14 (as claimed): an execution to which shouldSendWithLease resolved
\* false performs neither the send nor the request to flaky.
C14_AlreadyDoneSkipsAll ==
  [][\A a \in Attempts :
        (decision[a] = "false" /\ epc'[a] # epc[a])
        => /\ emailsSent' = emailsSent
           /\ ~(epc[a] = "flaky" /\ eoutcome'[a] \in {"ok", "failed"})]_vars

\* C14 (amended): shouldSendWithLease resolves false only on a Done record
\* and writes nothing; the execution then skips the send and markSent and
\* goes straight to the request to flaky, which is its only remaining step.
C14_AlreadyDoneSkipsSend ==
  [][\A a \in Attempts :
        /\ (Decides(a) /\ decision'[a] = "false")
             => /\ IsDone(sentEmails[eev[a]]) /\ epc'[a] = "flaky"
                /\ sentEmails' = sentEmails /\ emailsSent' = emailsSent
        /\ (decision[a] = "false" /\ epc'[a] # epc[a])
             => /\ epc[a] = "flaky" /\ epc'[a] = "idle"
                /\ sentEmails' = sentEmails /\ emailsSent' = emailsSent]_vars

\* C14 witness: the flaky call of the execution that sent the e-mail failed,
\* and the redelivery, told false, is at its own flaky call.
C14_Witness ==
  \E e \in Events, a, b \in Attempts :
    /\ a # b /\ eev[a] = e /\ eev[b] = e
    /\ eoutcome[b] = "failed" /\ epc[b] = "idle"
    /\ decision[a] = "false" /\ epc[a] = "flaky"
    /\ IsDone(sentEmails[e]) /\ emailsSent[e] = 1

\* C15: when the shouldSendWithLease transaction itself fails, the execution
\* ends with a rejected promise, runs neither the send nor the flaky call,
\* and the record is exactly what it was before.
C15_DecideFailureLeavesRecord ==
  [][\A a \in Attempts :
        (epc[a] = "decide" /\ epc'[a] # "decide" /\ eoutcome'[a] = "failed")
        => /\ epc'[a] = "idle" /\ decision'[a] = "none" /\ heldLease'[a] = 0
           /\ sentEmails' = sentEmails /\ emailsSent' = emailsSent]_vars

\* C15 witness: the transaction of one execution failed before any e-mail
\* was sent, and the record still is the live lease of the running holder.
C15_Witness ==
  \E e \in Events, a, b \in Attempts :
    /\ a # b /\ eev[a] = e /\ eev[b] = e
    /\ epc[a] = "idle" /\ eoutcome[a] = "failed" /\ emailsSent[e] = 0
    /\ epc[b] = "send" /\ heldLease[b] > now
    /\ IsLeased(sentEmails[e]) /\ sentEmails[e].data.lease = heldLease[b]

\* C16: in both order functions a stage is left either for the next stage,
\* its work done (a cook answered; the order stored), or for the end of the
\* execution with a rejected promise and nothing recorded: a failed
\* chooseCook writes no order and calls no prepareMeal, a failed store calls
\* no prepareMeal, and only a prepareMeal call that succeeded ends the
\* execution successfully.
C16_FailureStopsAttempt ==
  [][\A a \in OrderAttempts :
        LET Stopped == /\ opc'[a] = "idle"
                       /\ ooutcome'[a] \in {"failed", "crashed"}
                       /\ incomingRetryIdempotent' = incomingRetryIdempotent
                       /\ incomingRetry' = incomingRetry
                       /\ notifyCalls' = notifyCalls /\ notified' = notified
        IN /\ (opc[a] = "chooseCook" /\ opc'[a] # opc[a])
                => \/ opc'[a] = "store" /\ resCook'[a] \in CookChoices
                   \/ Stopped
           /\ (opc[a] = "retry:chooseCook" /\ opc'[a] # opc[a])
                => \/ opc'[a] = "retry:add" /\ resCook'[a] \in CookChoices
                   \/ Stopped
           /\ (opc[a] = "store" /\ opc'[a] # opc[a])
                => \/ /\ opc'[a] = "notify" /\ OrdersOf(oev[a])' # {}
                      /\ notifyCalls' = notifyCalls
                   \/ Stopped
           /\ (opc[a] = "retry:add" /\ opc'[a] # opc[a])
                => \/ /\ opc'[a] = "retry:notify" /\ RetryOrdersOf(oev[a])' # {}
                      /\ notifyCalls' = notifyCalls
                   \/ Stopped
           /\ (opc[a] \in {"notify", "retry:notify"} /\ opc'[a] # opc[a])
                => /\ opc'[a] = "idle" /\ ooutcome'[a] \in {"ok", "failed", "crashed"}
                   /\ ooutcome'[a] = "ok" => notified'[oev[a]]
                   /\ incomingRetryIdempotent' = incomingRetryIdempotent
                   /\ incomingRetry' = incomingRetry]_vars

\* C16 witness: two executions failed before their order was stored, and
\* nothing is recorded: no order in either collection, no prepareMeal call.
C16_Witness ==
  \E e \in OrderEvents, a, b \in OrderAttempts :
    /\ a # b /\ oev[a] = e /\ oev[b] = e
    /\ opc[a] = "idle" /\ ooutcome[a] = "failed"
    /\ opc[b] = "idle" /\ ooutcome[b] = "failed"
    /\ OrdersOf(e) = {} /\ RetryOrdersOf(e) = {}
    /\ notifyCalls[e] = 0 /\ ~notified[e]

\* C17: under idempotentFirestoreFunction every event has at most one
\* document, the one keyed by its id and holding its content; a set that
\* takes effect leaves exactly that document, changes nothing when the key
\* is already there, and the execution goes on to the request to flaky
\* either way.
C17_SetIsIdempotent ==
  [][/\ \A e \in Events :
          /\ Cardinality(ContentsOf(e)') <= 1
          /\ ContentsOf(e)' \subseteq {[docId |-> e, data |-> EventContent(e)]}
          /\ ContentsOf(e) # {} => ContentsOf(e)' = ContentsOf(e)
     /\ \A a \in Attempts :
          (/\ epc[a] = "contents:set" /\ epc'[a] # epc[a]
           /\ eoutcome'[a] \notin {"failed", "crashed"})
          => /\ epc'[a] = "flaky"
             /\ Cardinality(ContentsOf(eev[a])') = 1
             /\ ContentsOf(eev[a]) # {} => contents' = contents]_vars

\* C17 witness: one execution wrote the document and finished, a duplicate
\* delivery has set the same key again and is at its own flaky call; one
\* document is there for the event.
C17_Witness ==
  \E e \in Events, a, b \in Attempts :
    /\ a # b /\ eev[a] = e /\ eev[b] = e
    /\ epc[b] = "idle" /\ eoutcome[b] = "ok"
    /\ epc[a] = "flaky" /\ decision[a] = "none"
    /\ contents = {[docId |-> e, data |-> EventContent(e)]}

\* C18: without a duplicate check every write that takes effect adds a
\* record for its event, whether or not one is stored already, and no record
\* is ever removed: each redelivery that gets as far as its write leaves one
\* more record of the same event.
C18_EveryWriteAdds ==
  [][/\ contents \subseteq contents' /\ incomingRetry \subseteq incomingRetry'
     /\ \A a \in Attempts :
          (epc[a] = "contents:add" /\ epc'[a] = "flaky")
          => Cardinality(ContentsOf(eev[a])') = Cardinality(ContentsOf(eev[a])) + 1
     /\ \A a \in OrderAttempts :
          (opc[a] = "retry:add" /\ opc'[a] = "retry:notify")
          => Cardinality(RetryOrdersOf(oev[a])') = Cardinality(RetryOrdersOf(oev[a])) + 1]_vars

\* C18 witness: the prepareMeal call of an execution of processOrderRetry
\* failed after its order was stored, the redelivery stored the order again:
\* two orders of one event are in incomingRetry.
C18_Witness ==
  \E e \in OrderEvents, a, b \in OrderAttempts :
    /\ a # b /\ oev[a] = e /\ oev[b] = e
    /\ opc[a] = "idle" /\ ooutcome[a] = "failed" /\ notifyCalls[e] = 1
    /\ opc[b] = "retry:notify"
    /\ Cardinality(RetryOrdersOf(e)) = 2

\* The same duplicate under nonIdempotentFirestoreFunction: two documents
\* hold the content of one event after a failed flaky call.
ContentsDuplicate ==
  \E e \in Events, a, b \in Attempts :
    /\ a # b /\ eev[a] = e /\ eev[b] = e
    /\ epc[a] = "idle" /\ eoutcome[a] = "failed"
    /\ epc[b] = "flaky"
    /\ Cardinality(ContentsOf(e)) = 2

\* Execution a's shouldSend read is answered in this step.
Reads(a) ==
  epc[a] = "shouldSend" /\ epc'[a] # epc[a] /\ eoutcome'[a] \notin {"failed", "crashed"}

\* C19: under almostIdempotentEmailFunction a record marked sent stays so,
\* a read answered after some markSent took effect resolves false and the
\* execution skips the send; the e-mail is sent only by an execution whose
\* read was answered while the record was not yet marked sent.
C19_SendOnlyAfterUnmarkedRead ==
  [][\A a \in Attempts :
        /\ IsDone(sentEmails[eev[a]]) => sentEmails'[eev[a]] = sentEmails[eev[a]]
        /\ Reads(a) =>
             IF IsDone(sentEmails[eev[a]])
             THEN decision'[a] = "false" /\ epc'[a] = "flaky"
             ELSE decision'[a] = "true" /\ epc'[a] = "send"
        /\ emailsSent'[eev[a]] # emailsSent[eev[a]] =>
             \E b \in Attempts : /\ eev[b] = eev[a] /\ decision[b] = "true"
                                 /\ epc[b] = "send" /\ epc'[b] = "mark"]_vars

\* C19 witness: two concurrent deliveries of one event both read before
\* either markSent took effect; one has marked the record, the other has
\* sent the e-mail a second time.
C19_Witness ==
  \E e \in Events, a, b \in Attempts :
    /\ a # b /\ eev[a] = e /\ eev[b] = e
    /\ decision[a] = "true" /\ epc[a] = "flaky"
    /\ decision[b] = "true" /\ epc[b] = "mark"
    /\ IsDone(sentEmails[e]) /\ emailsSent[e] = 2

\* C20: a shouldSendWithLease call that resolves true found the record
\* absent or Leased with a lease not later than now, and writes the record
\* {lease: now + leaseTime}: the new lease is later than now and later than
\* the lease it replaces.
C20_LeaseIsNowPlusLeaseTime ==
  [][\A a \in Attempts : (Decides(a) /\ decision'[a] = "true") =>
        LET old == sentEmails[eev[a]]
            new == sentEmails'[eev[a]]
        IN /\ ~old.exists \/ (IsLeased(old) /\ old.data.lease <= now)
           /\ new = Doc([lease |-> now + leaseTime])
           /\ leaseTime = 60000 /\ new.data.lease > now
           /\ IsLeased(old) => new.data.lease > old.data.lease]_vars

\* C20 witness: an execution has just replaced the lease of an execution
\* that is still running; its lease is now + leaseTime, later than the one
\* it replaced.
C20_Witness ==
  \E e \in Events, a, b \in Attempts :
    /\ a # b /\ eev[a] = e /\ eev[b] = e
    /\ epc[a] = "send" /\ heldLease[a] = now + leaseTime
    /\ sentEmails[e] = Doc([lease |-> heldLease[a]])
    /\ heldLease[b] > 0 /\ heldLease[b] <= now /\ heldLease[b] < heldLease[a]

\* C21: in every reachable state a record of sentEmails is either
\* {sent: true} alone (Done, no lease field) or {lease: ...} alone (Leased,
\* not sent): no record is both leased and sent.
C21_LeaseOnlyWhileLeased ==
  \A e \in Events :
    sentEmails[e].exists =>
      \/ DOMAIN sentEmails[e].data = {"sent"} /\ sentEmails[e].data.sent
      \/ DOMAIN sentEmails[e].data = {"lease"} /\ sentEmails[e].data.lease > 0

\* C21 witness: the record of an event that was leased has been replaced by
\* markSent and holds no lease field, written by the execution granted the lease.
C21_Witness ==
  \E e \in Events, a \in Attempts :
    /\ firstGrant[e] >= 0 /\ emailsSent[e] = 1
    /\ sentEmails[e].exists /\ DOMAIN sentEmails[e].data = {"sent"}
    /\ eev[a] = e /\ epc[a] = "flaky" /\ decision[a] = "true"

\* C25: a committed shouldSendWithLease call changes the record only when it
\* resolves true.  When it resolves false or rejects, every record of
\* sentEmails is as before (a running execution's lease is neither extended
\* nor shortened); when it resolves true, only the record of its own event
\* id changes.
C25_WritesOnlyWhenTrue ==
  [][\A a \in Attempts :
       Decides(a) =>
         /\ (decision'[a] = "false" \/ eoutcome'[a] = "rejected")
              => sentEmails' = sentEmails
         /\ \A f \in Events : f # eev[a] => sentEmails'[f] = sentEmails[f]
         /\ sentEmails' # sentEmails => decision'[a] = "true"]_vars

\* C25 witness: an execution holds a lease taken earlier that has not run
\* out, its record still carries exactly that lease, a second execution of the same event was
\* rejected, and the other event's record is leased as well.
C25_Witness ==
  \E a, b \in Attempts, e, f \in Events :
    /\ a # b /\ e # f
    /\ eev[a] = e /\ epc[a] \in {"send", "mark"}
    /\ now < heldLease[a] /\ now + leaseTime > heldLease[a]
    /\ sentEmails[e].exists /\ DOMAIN sentEmails[e].data = {"lease"}
    /\ sentEmails[e].data.lease = heldLease[a]
    /\ eev[b] = e /\ epc[b] = "idle" /\ eoutcome[b] = "rejected"
    /\ firstGrant[f] >= 0

\* C26: in almostIdempotentEmailFunction and in idempotentEmailFunction a
\* record that is marked sent belongs to an event whose e-mail was sent at
\* least once, and an execution that was told to send is at its flaky call
\* only after its own send and its own markSent: the e-mail of its event was
\* sent and the record is marked.
C26_MarkedOnlyAfterSend ==
  /\ \A e \in Events : IsDone(sentEmails[e]) => emailsSent[e] >= 1
  /\ \A a \in Attempts :
       (epc[a] = "flaky" /\ decision[a] = "true")
         => emailsSent[eev[a]] >= 1 /\ IsDone(sentEmails[eev[a]])
  /\ \A a \in Attempts : epc[a] = "mark" => emailsSent[eev[a]] >= 1

\* C26 witness: two executions of almostIdempotentEmailFunction (no lease
\* was ever granted) both read the record unmarked, both sent and marked, and
\* both are at their flaky call.
C26_Witness ==
  \E a, b \in Attempts :
    /\ a # b /\ eev[a] = eev[b] /\ firstGrant[eev[a]] < 0
    /\ epc[a] = "flaky" /\ decision[a] = "true"
    /\ epc[b] = "flaky" /\ decision[b] = "true"
    /\ emailsSent[eev[a]] = 2 /\ IsDone(sentEmails[eev[a]])

\* C22: the request an execution of idempotentFirestoreFunction,
\* almostIdempotentEmailFunction or idempotentEmailFunction has issued to
\* flaky carries the id of the execution's event as idempotency key, and the
\* request an execution of processOrderRetryIdempotent has issued to
\* prepareMeal carries the id of its order and no other field.
C22_CallsCarryEventId ==
  /\ \A a \in Attempts :
       /\ epc[a] = "flaky" <=> flakyRequest[a].issued
       /\ flakyRequest[a].issued =>
            IdempotencyKey(flakyRequest[a].path) = <<eev[a]>>
  /\ \A a \in OrderAttempts :
       /\ opc[a] = "notify" <=> prepareMealRequest[a].issued
       /\ prepareMealRequest[a].issued =>
            prepareMealRequest[a].body = [id |-> oev[a]]

\* C22 witness: an execution of processOrderRetryIdempotent has its request
\* to prepareMeal in flight; the stored order has a cook, a meal and a
\* timestamp, the body names the order and nothing else.
C22_Witness ==
  \E a \in OrderAttempts, d \in incomingRetryIdempotent :
    /\ opc[a] = "notify" /\ prepareMealRequest[a].issued
    /\ d.docId = oev[a] /\ d.data.cook = resCook[a]
    /\ DOMAIN d.data = {"id", "timestamp", "meal", "cook"}
    /\ DOMAIN prepareMealRequest[a].body = {"id"}
    /\ prepareMealRequest[a].body.id = d.data.id

\* C23: the caller makes its attempts one after another (attempt n + 1
\* starts only when attempt n was rejected and its retry timer is pending),
\* makes at most retries + 1 = 11 attempts and none after a resolved one, and
\* terminates: it reports success exactly when an attempt resolved, and
\* failure only when all 11 attempts were rejected.
C23_CallerTerminates ==
  /\ [](/\ number <= 11
        /\ succeeded <= 1
        /\ succeeded = 1 <=> cpc = "success"
        /\ cpc = "success" => failed = number - 1
        /\ cpc = "failure" => number = 11 /\ failed = 11 /\ succeeded = 0)
  /\ [][/\ number' # number =>
             /\ number' = number + 1
             /\ failed = number /\ succeeded = 0 /\ hpc = "idle"
             /\ number > 0 => cpc = "backoff" /\ timeout > 0
        /\ cpc \in {"success", "failure"} => UNCHANGED callerVars]_vars
  /\ <>(cpc \in {"success", "failure"})

\* C23 witness: all 11 attempts were rejected, the last one with status 500,
\* and the caller has reported failure.
C23_Witness ==
  /\ cpc = "failure" /\ number = retries + 1 /\ failed = retries + 1
  /\ succeeded = 0 /\ err = "StatusCodeError" /\ hpc = "idle"

\* C24: under idempotentEmailFunction with redelivery, an advancing clock and
\* calls that succeed infinitely often, the record of every event is
\* eventually marked sent and stays so: no record stays leased forever,
\* whether the holder of the lease crashed or not, and whatever calls were
\* rejected.
C24_EventuallyDone == \A e \in Events : <>[]IsDone(sentEmails[e])

\* C24 witness: the execution first granted the lease of an event failed
\* without marking it, another one crashed, the lease ran out, and the
\* execution granted the next lease has sent and marked the record.
C24_Witness ==
  \E e \in Events, a, b \in Attempts :
    /\ a # b /\ eev[a] = e /\ eev[b] = e
    /\ eoutcome[b] = "crashed" /\ epc[b] = "idle"
    /\ firstGrant[e] >= 0 /\ now >= firstGrant[e] + leaseTime
    /\ windowRuns[e] = 1 /\ emailsSent[e] = 1
    /\ epc[a] = "flaky" /\ decision[a] = "true" /\ IsDone(sentEmails[e])

====
